---- MODULE Spec2Model ----
(***************************************************************************)
(* Model of the IP-UCD industry-pack driver, src/ip-ucd.h (class           *)
(* IPUCD::v1_0::HW and its FifoEntry register).  The driver keeps no state *)
(* of its own: everything lives in the module's registers, reached through *)
(* the two memory objects a16 and a32.  Every register access of the code  *)
(* is one step of the model, made by the process that holds the driver's   *)
(* lock; the hardware pushes FIFO entries on its own.                      *)
(***************************************************************************)
EXTENDS Integers, Sequences, FiniteSets, TLC

VARIABLES a16, a32, mutex, constructed, pc, op, tmp, ret, acc, snap, lastAdj,
          nOps, nPush, faulty, pushed, returned, enabled, fe

vars == <<a16, a32, mutex, constructed, pc, op, tmp, ret, acc, snap, lastAdj,
          nOps, nPush, faulty, pushed, returned, enabled, fe>>

(***************************************************************************)
(* Bounds of the model.                                                    *)
(***************************************************************************)
\* driver operations called after construction
MaxOps == 3
\* entries the hardware pushes into the FIFO
MaxPush == 1
MaxReads == 4
MaxFifoPush == 2
MaxLiveOps == 2

(***************************************************************************)
(* Program constants.                                                      *)
(***************************************************************************)
\* enum ControlCommand
EnableTCLK == 1
SW_Reset == 255
\* enum Status
FIFOUnderflow == 4096
FIFOThreshold == 512
FIFOEmpty == 256
\* the module id HW::HW looks for, 0xbb15
ModuleId == 47893
\* uint16_t[256] regTrigger and the constructor's loop bound
TriggerEntries == 256
\* FifoEntry::NO_VALUE is 0xffffffff: both 16-bit halves are 0xffff
NO_VALUE == [hi |-> 65535, lo |-> 65535]

(***************************************************************************)
(* Callers: tasks and one interrupt handler.  The task Creator constructs  *)
(* the driver instance; nobody can call an operation before that.          *)
(***************************************************************************)
Tasks == {"task1", "task2"}
Procs == Tasks \cup {"isr"}
Creator == "task1"
None == "none"

(***************************************************************************)
(* Inputs.                                                                 *)
(***************************************************************************)
IdHighInputs == {187, 0}
IdLowInputs == {21, 255}
EventInputs == {0, 255}
TrigBitInputs == {0, 7, 8, 255}
SpecialTrigBitInputs == {0, 1, 7, 8}
LevelInputs == {0, 1, 255}
\* 32-bit FIFO words the hardware may hold, as their two 16-bit halves
FifoInputs == {[hi |-> 1, lo |-> 515], [hi |-> 65535, lo |-> 65535]}
\* 16-bit halves of the words a FifoEntry is built from
WordInputs == {0, 1, 255, 256, 515, 32767, 32768, 65279, 65534, 65535}

A16Regs == {"regIdHigh", "regIdLow", "regControl", "regStatus", "regFifoWrite",
            "regFifoClear", "regFifoThreshold"}

(***************************************************************************)
(* Bit arithmetic on unsigned 16-bit values.                               *)
(***************************************************************************)
Bit(v, n) == (v \div (2 ^ n)) % 2

RECURSIVE BitSum(_, _)
BitSum(f, n) == IF n < 0 THEN 0 ELSE f[n] * (2 ^ n) + BitSum(f, n - 1)

BitAnd(x, y) == BitSum([n \in 0..15 |-> Bit(x, n) * Bit(y, n)], 15)
BitOr(x, y) == BitSum([n \in 0..15 |-> IF Bit(x, n) + Bit(y, n) > 0 THEN 1 ELSE 0], 15)
\* x & ~y, converted back to uint16_t
BitAndNot(x, y) == BitSum([n \in 0..15 |-> Bit(x, n) * (1 - Bit(y, n))], 15)

(***************************************************************************)
(* The hardware.  a16 maps each A16 register to its content; for regStatus *)
(* that is the latched (sticky) bits, the FIFO-empty bit is live.  a32     *)
(* holds the trigger map and the FIFO behind the regFifo register.         *)
(***************************************************************************)
StatusValue == a16["regStatus"] + (IF Len(a32.regFifo) = 0 THEN FIFOEmpty ELSE 0)

GetA16(reg) == IF reg = "regStatus" THEN StatusValue ELSE a16[reg]

\* a write to regStatus clears the latched bits that are set in the value written
StoreA16(reg, v) ==
    [a16 EXCEPT ![reg] = IF reg = "regStatus" THEN BitAndNot(@, v) ELSE v]

\* the two adjacent 16-bit words of regFifo; reading the second one pops
FifoWord0 == IF Len(a32.regFifo) = 0 THEN 65535 ELSE Head(a32.regFifo).hi
FifoWord1 == IF Len(a32.regFifo) = 0 THEN 65535 ELSE Head(a32.regFifo).lo
FifoAfterPop == IF Len(a32.regFifo) = 0 THEN <<>> ELSE Tail(a32.regFifo)

\* the registers a driver write can change
HwRegs == [a16 |-> a16, trig |-> a32.regTrigger]

\* ConfirmWrite reads the register back after writing it; on a module whose
\* bus fails the read-back may differ and the write is lost
VerifyOutcomes == IF faulty THEN BOOLEAN ELSE {TRUE}

(***************************************************************************)
(* Locals of a caller.                                                     *)
(***************************************************************************)
NoCall == [name |-> "none", enable |-> FALSE, event |-> 0, trigBit |-> 0, level |-> 0]
NoTmp == [a |-> -1, b |-> -1]
NoRet == [kind |-> "none", flag |-> FALSE, word |-> 0, entry |-> NO_VALUE]
\* no FifoEntry object under inspection
NoFifoEntry == [value |-> NO_VALUE, made |-> "none", event |-> -1, stamp |-> -1,
                valid |-> "unknown"]
NoSnap == [a16 |-> <<>>, trig |-> <<>>]
NoAdj == [name |-> "none", enable |-> FALSE, event |-> 0, trigBit |-> 0,
          before |-> 0, after |-> <<>>]

OpInputs ==
    {[NoCall EXCEPT !.name = "setFifoThreshold", !.level = l] : l \in LevelInputs}
    \cup {[NoCall EXCEPT !.name = "adjustTclkReception", !.enable = en, !.event = e,
                       !.trigBit = b] :
             en \in BOOLEAN, e \in EventInputs, b \in TrigBitInputs}
    \cup {[NoCall EXCEPT !.name = "getTclkReception", !.event = e, !.trigBit = b] :
             e \in EventInputs, b \in TrigBitInputs}
    \cup {[NoCall EXCEPT !.name = n, !.trigBit = b] :
             n \in {"setResetFifoTimestampTrigger", "setWriteFifoTrigger"},
             b \in SpecialTrigBitInputs}
    \cup {[NoCall EXCEPT !.name = n] : n \in {"getStatus", "readFifo"}}

\* task1 configures the module and may call every operation; the other task
\* and the interrupt handler service the status and the FIFO
OpsOf(p) ==
    IF p = Creator THEN OpInputs
    ELSE {o \in OpInputs : o.name \in {"getStatus", "readFifo"}}

(***************************************************************************)
(* Pure parts of the code.                                                 *)
(***************************************************************************)
\* FifoEntry::isValid
isValid(e) == e # NO_VALUE

\* FifoEntry::event: uint8_t(value)
event(e) == e.lo % 256

\* FifoEntry::stamp: value >> 8
stampShort(e) == e.hi
stamp(e) == e.hi * 256 + (e.lo \div 256)

\* Register<A32, FifoEntry, ...>::read: (tmp << 16) | second word
FifoEntryOfSwapped(first, second) == [hi |-> second, lo |-> first % 65536]
FifoEntryOf(first, second) == [hi |-> first % 65536, lo |-> second]

\* HW::getModuleId: (idHigh << 8) + idLow as uint16_t
getModuleId(idHigh, idLow) == (idHigh * 256 + idLow) % 65536

\* HW::HW: the identity test
IdOkLoose(id) == TRUE
IdOk(id) == id = ModuleId

\* HW::HW: the condition of the trigger-clearing loop
LoopContinuesShort(ii) == ii < TriggerEntries - 1
LoopContinues(ii) == ii < TriggerEntries

\* HW::setFifoThreshold: level > 0
ThresholdOkOff(level) == level > 1
ThresholdOk(level) == level > 0

\* adjustTclkReception, getTclkReception: the throw is on trigBit > 7
TrigBitOkLoose(trigBit) == ~(trigBit > 8)
TrigBitOk(trigBit) == ~(trigBit > 7)

\* setResetFifoTimestampTrigger, setWriteFifoTrigger: trigBit < 1 || trigBit > 7
SpecialTrigBitOk(trigBit) == ~(trigBit < 1 \/ trigBit > 7)

\* the value written to regFifoClear / regFifoWrite: trigBit + 1 as uint8_t
TrigSelectRaw(trigBit) == trigBit
TrigSelect(trigBit) == (trigBit + 1) % 256

\* uint8_t const mask = 1 << trigBit
MaskShifted(trigBit) == (2 ^ (trigBit + 1)) % 256
Mask(trigBit) == (2 ^ trigBit) % 256

\* adjustTclkReception: enable ? (prev | mask) : (prev & ~mask)
AdjustValueToggle(enable, prev, trigBit) ==
    IF Bit(prev, trigBit) = 1 THEN BitAndNot(prev, Mask(trigBit))
    ELSE BitOr(prev, Mask(trigBit))
AdjustValueOverwrite(enable, prev, trigBit) ==
    IF enable THEN Mask(trigBit) ELSE BitAndNot(prev, Mask(trigBit))
AdjustValue(enable, prev, trigBit) ==
    IF enable THEN BitOr(prev, Mask(trigBit)) ELSE BitAndNot(prev, Mask(trigBit))

\* getTclkReception: (entry & mask) != 0
TclkReception(entry, trigBit) == BitAnd(entry, Mask(trigBit)) # 0

\* getStatus: the value written back is the value read
StatusWriteBackZero(temp) == 0
StatusWriteBack(temp) == temp

\* getStatus: the register the value is written back to
StatusRegControl == "regControl"
StatusReg == "regStatus"

\* readFifo: (status & FIFOEmpty) == 0
FifoHasDataNever(status) == FALSE
FifoHasDataAlways(status) == TRUE
FifoHasData(status) == BitAnd(status, FIFOEmpty) = 0

\* Mutex: the lock can be taken when nobody holds it
CanTakeAlways(p) == TRUE
CanTake(p) == mutex = None

\* LockType is an interrupt lock as well (it is passed where an
\* IntLock const& is expected): while it is held, interrupts are locked out
IntMaskedNever == FALSE
IntMasked == mutex # None

(***************************************************************************)
(* Steps shared by the operations.                                         *)
(***************************************************************************)
Log(p, kind, reg, idx, val) ==
    acc' = [acc EXCEPT ![p] = Append(@, <<kind, reg, idx, val>>)]

\* a16.get<reg>(lock)
Get16(p, reg) == Log(p, "r", reg, 0, GetA16(reg)) /\ UNCHANGED <<a16, a32>>

\* a16.set<reg>(lock, v) with ConfirmWrite
Set16(p, reg, v, ok) ==
    /\ a16' = IF ok THEN StoreA16(reg, v) ELSE a16
    /\ Log(p, "w", reg, 0, v)
    /\ UNCHANGED a32

\* a32.set_element<regTrigger>(lock, idx, v) with ConfirmWrite
SetTrigger(p, idx, v, ok) ==
    /\ a32' = IF ok THEN [a32 EXCEPT !.regTrigger[idx] = v] ELSE a32
    /\ Log(p, "w", "regTrigger", idx, v)
    /\ UNCHANGED a16

Goto(p, label) ==
    /\ pc' = [pc EXCEPT ![p] = label]
    /\ UNCHANGED <<ret, mutex, constructed>>

\* the operation returns; the caller's lock object goes out of scope
Finish(p, r) ==
    /\ pc' = [pc EXCEPT ![p] = "done"]
    /\ ret' = [ret EXCEPT ![p] = r]
    /\ mutex' = IF mutex = p THEN None ELSE mutex
    /\ UNCHANGED constructed

Throw(p, kind) == Finish(p, [NoRet EXCEPT !.kind = kind])

\* the constructor throws: the lock is released, no instance exists
CtorThrowKeepsLock(p, kind) ==
    /\ pc' = [pc EXCEPT ![p] = "failed"]
    /\ ret' = [ret EXCEPT ![p] = [NoRet EXCEPT !.kind = kind]]
    /\ UNCHANGED <<mutex, constructed>>
CtorThrow(p, kind) ==
    /\ pc' = [pc EXCEPT ![p] = "failed"]
    /\ ret' = [ret EXCEPT ![p] = [NoRet EXCEPT !.kind = kind]]
    /\ mutex' = IF mutex = p THEN None ELSE mutex
    /\ UNCHANGED constructed

Ghosts == <<snap, lastAdj, nOps, nPush, faulty, fe>>

\* what the hardware has pushed, the entries readFifo has built from its reads
\* of the FIFO register, and the (event, trigBit) pairs whose last adjustTclkReception enabled them
Hist == <<pushed, returned, enabled>>

(***************************************************************************)
(* Initial states: the module as the constructor may find it, just powered *)
(* up or left configured by an earlier user, with a matching identity PROM *)
(* or another one.  No driver instance exists yet.                         *)
(***************************************************************************)
PowerUp(idHigh, idLow) ==
    [regIdHigh |-> idHigh, regIdLow |-> idLow, regControl |-> 0, regStatus |-> 0,
     regFifoWrite |-> 0, regFifoClear |-> 0, regFifoThreshold |-> 0]

Used(idHigh, idLow) ==
    [regIdHigh |-> idHigh, regIdLow |-> idLow, regControl |-> EnableTCLK,
     regStatus |-> 0, regFifoWrite |-> 3, regFifoClear |-> 5,
     regFifoThreshold |-> 0]

InitHw ==
    \E idHigh \in IdHighInputs, idLow \in IdLowInputs :
        \/ /\ a16 = PowerUp(idHigh, idLow)
           /\ a32 = [regTrigger |-> [e \in 0..(TriggerEntries - 1) |-> 0],
                     regFifo |-> <<>>]
        \/ /\ a16 = Used(idHigh, idLow)
           /\ a32 = [regTrigger |-> [e \in 0..(TriggerEntries - 1) |-> 65535],
                     regFifo |-> <<>>]

InitDriver ==
    /\ mutex = None
    /\ constructed = FALSE
    /\ pc = [p \in Procs |-> IF p = Creator THEN "start" ELSE "idle"]
    /\ op = [p \in Procs |-> NoCall]
    /\ tmp = [p \in Procs |-> NoTmp]
    /\ ret = [p \in Procs |-> NoRet]
    /\ acc = [p \in Procs |-> <<>>]
    /\ snap = NoSnap
    /\ lastAdj = NoAdj
    /\ nOps = 0
    /\ nPush = 0
    /\ pushed = <<>>
    /\ returned = <<>>
    /\ enabled = {}

Init == InitHw /\ InitDriver /\ faulty = FALSE /\ fe = NoFifoEntry

InitFault == InitHw /\ InitDriver /\ faulty = TRUE /\ fe = NoFifoEntry

(***************************************************************************)
(* HW::HW                                                                  *)
(***************************************************************************)
\* LockType const lock(this)
CtorLock(p) ==
    /\ pc[p] = "start"
    /\ CanTake(p)
    /\ mutex' = p
    /\ pc' = [pc EXCEPT ![p] = "id"]
    /\ snap' = HwRegs
    /\ UNCHANGED <<a16, a32, constructed, op, tmp, ret, acc, lastAdj, nOps, nPush,
                   faulty, fe>>
    /\ UNCHANGED Hist

\* getModuleId reads the two PROM bytes; the compiler picks the order
CtorReadIdHigh(p) ==
    /\ pc[p] = "id"
    /\ tmp[p].a = -1
    /\ tmp' = [tmp EXCEPT ![p].a = GetA16("regIdHigh")]
    /\ Get16(p, "regIdHigh")
    /\ UNCHANGED <<mutex, constructed, pc, op, ret>>
    /\ UNCHANGED Ghosts
    /\ UNCHANGED Hist

CtorReadIdLow(p) ==
    /\ pc[p] = "id"
    /\ tmp[p].b = -1
    /\ tmp' = [tmp EXCEPT ![p].b = GetA16("regIdLow")]
    /\ Get16(p, "regIdLow")
    /\ UNCHANGED <<mutex, constructed, pc, op, ret>>
    /\ UNCHANGED Ghosts
    /\ UNCHANGED Hist

\* if (getModuleId(lock) != 0xbb15) throw std::runtime_error(...)
CtorCheckId(p) ==
    /\ pc[p] = "id"
    /\ tmp[p].a # -1
    /\ tmp[p].b # -1
    /\ IF IdOk(getModuleId(tmp[p].a, tmp[p].b))
       THEN Goto(p, "reset")
       ELSE CtorThrow(p, "runtime_error")
    /\ UNCHANGED <<a16, a32, op, tmp, acc>>
    /\ UNCHANGED Ghosts
    /\ UNCHANGED Hist

\* a16.set<regControl>(lock, SW_Reset)
CtorReset(p) ==
    /\ pc[p] = "reset"
    /\ \E ok \in VerifyOutcomes :
        /\ Set16(p, "regControl", SW_Reset, ok)
        /\ IF ok THEN Goto(p, "clearWrite") ELSE CtorThrow(p, "runtime_error")
    /\ UNCHANGED <<op, tmp>>
    /\ UNCHANGED Ghosts
    /\ UNCHANGED Hist

\* a16.set<regFifoWrite>(lock, 0x00)
CtorClearFifoWrite(p) ==
    /\ pc[p] = "clearWrite"
    /\ \E ok \in VerifyOutcomes :
        /\ Set16(p, "regFifoWrite", 0, ok)
        /\ IF ok THEN Goto(p, "clearClear") ELSE CtorThrow(p, "runtime_error")
    /\ UNCHANGED <<op, tmp>>
    /\ UNCHANGED Ghosts
    /\ UNCHANGED Hist

\* a16.set<regFifoClear>(lock, 0x00); then ii = 0
CtorClearFifoClear(p) ==
    /\ pc[p] = "clearClear"
    /\ \E ok \in VerifyOutcomes :
        /\ Set16(p, "regFifoClear", 0, ok)
        /\ IF ok
           THEN Goto(p, IF LoopContinues(0) THEN "clearTrig" ELSE "enable")
           ELSE CtorThrow(p, "runtime_error")
    /\ tmp' = [tmp EXCEPT ![p] = [a |-> 0, b |-> -1]]
    /\ UNCHANGED op
    /\ UNCHANGED Ghosts
    /\ UNCHANGED Hist

\* for (ii = 0; ii < 256; ++ii) a32.set_element<regTrigger>(lock, ii, 0x00)
CtorClearTrigger(p) ==
    /\ pc[p] = "clearTrig"
    /\ \E ok \in VerifyOutcomes :
        /\ SetTrigger(p, tmp[p].a, 0, ok)
        /\ IF ok
           THEN Goto(p, IF LoopContinues(tmp[p].a + 1) THEN "clearTrig" ELSE "enable")
           ELSE CtorThrow(p, "runtime_error")
    /\ tmp' = [tmp EXCEPT ![p].a = @ + 1]
    /\ UNCHANGED op
    /\ UNCHANGED Ghosts
    /\ UNCHANGED Hist

\* a16.set<regControl>(lock, EnableTCLK); the constructor returns
CtorEnable(p) ==
    /\ pc[p] = "enable"
    /\ \E ok \in VerifyOutcomes :
        /\ Set16(p, "regControl", EnableTCLK, ok)
        /\ IF ok
           THEN /\ pc' = [pc EXCEPT ![p] = "built"]
                /\ ret' = [ret EXCEPT ![p] = [NoRet EXCEPT !.kind = "ok"]]
                /\ mutex' = IF mutex = p THEN None ELSE mutex
                /\ constructed' = TRUE
           ELSE CtorThrow(p, "runtime_error")
    /\ UNCHANGED <<op, tmp>>
    /\ UNCHANGED Ghosts
    /\ UNCHANGED Hist

(***************************************************************************)
(* The hardware captures an event: one entry is pushed into the FIFO; the  *)
(* threshold bit latches when the fill level reaches regFifoThreshold.     *)
(***************************************************************************)
Capture(limit, entries) ==
    /\ nPush < limit
    /\ \E e \in entries :
        /\ a32' = [a32 EXCEPT !.regFifo = Append(@, e)]
        /\ pushed' = Append(pushed, e)
    /\ a16' = IF a16["regFifoThreshold"] > 0
                 /\ Len(a32.regFifo) + 1 >= a16["regFifoThreshold"]
              THEN [a16 EXCEPT !["regStatus"] = BitOr(@, FIFOThreshold)]
              ELSE a16
    /\ nPush' = nPush + 1
    /\ UNCHANGED <<mutex, constructed, pc, op, tmp, ret, acc, snap, lastAdj, nOps,
                   faulty, fe, returned, enabled>>

\* with the whole driver in play the captured word is an ordinary one; the
\* word 0xFFFFFFFF is captured where the FIFO is drained (HwPushFifo)
HwPush == Capture(MaxPush, {e \in FifoInputs : isValid(e)})

Construct ==
    \/ CtorLock(Creator)
    \/ CtorReadIdHigh(Creator)
    \/ CtorReadIdLow(Creator)
    \/ CtorCheckId(Creator)
    \/ CtorReset(Creator)
    \/ CtorClearFifoWrite(Creator)
    \/ CtorClearFifoClear(Creator)
    \/ CtorClearTrigger(Creator)
    \/ CtorEnable(Creator)

(***************************************************************************)
(* A caller takes the driver's lock (LockType lock(&hw)) and calls one     *)
(* operation with it.                                                      *)
(***************************************************************************)
Enter(p, ops, limit) ==
    /\ constructed
    /\ pc[p] = "idle"
    /\ \A q \in Procs : pc[q] \notin {"done", "built"}
    /\ nOps < limit
    /\ CanTake(p)
    /\ \E o \in ops : op' = [op EXCEPT ![p] = o]
    /\ mutex' = p
    /\ pc' = [pc EXCEPT ![p] = "locked"]
    /\ snap' = HwRegs
    /\ nOps' = nOps + 1
    /\ UNCHANGED <<a16, a32, constructed, tmp, ret, acc, lastAdj, nPush, faulty, fe>>
    /\ UNCHANGED Hist

Call(p) == Enter(p, OpsOf(p), MaxOps)

\* the caller has used the result; an adjustTclkReception that succeeded is
\* remembered as the operation that ran last
Return(p) ==
    /\ pc[p] \in {"done", "built"}
    /\ pc' = [pc EXCEPT ![p] = "idle"]
    /\ lastAdj' = IF op[p].name = "adjustTclkReception" /\ ret[p].kind = "ok"
                  THEN [name |-> op[p].name, enable |-> op[p].enable,
                        event |-> op[p].event, trigBit |-> op[p].trigBit,
                        before |-> snap.trig[op[p].event],
                        after |-> a32.regTrigger]
                  ELSE NoAdj
    /\ op' = [op EXCEPT ![p] = NoCall]
    /\ tmp' = [tmp EXCEPT ![p] = NoTmp]
    /\ ret' = [ret EXCEPT ![p] = NoRet]
    /\ acc' = [acc EXCEPT ![p] = <<>>]
    /\ snap' = NoSnap
    /\ UNCHANGED <<a16, a32, mutex, constructed, nOps, nPush, faulty, fe>>
    /\ UNCHANGED Hist

At(p, name, label) == pc[p] = label /\ op[p].name = name

Ok == [NoRet EXCEPT !.kind = "ok"]

(***************************************************************************)
(* HW::setFifoThreshold                                                    *)
(***************************************************************************)
setFifoThreshold(p) ==
    /\ At(p, "setFifoThreshold", "locked")
    /\ IF ThresholdOk(op[p].level)
       THEN \E ok \in VerifyOutcomes :
                /\ Set16(p, "regFifoThreshold", op[p].level, ok)
                /\ IF ok THEN Finish(p, Ok) ELSE Throw(p, "runtime_error")
       ELSE /\ Throw(p, "logic_error")
            /\ UNCHANGED <<a16, a32, acc>>
    /\ UNCHANGED <<op, tmp>>
    /\ UNCHANGED Ghosts
    /\ UNCHANGED Hist

(***************************************************************************)
(* HW::adjustTclkReception                                                 *)
(***************************************************************************)
\* the range check, setupInterrupt (empty) and the read of the entry
adjustTclkReceptionRead(p) ==
    /\ At(p, "adjustTclkReception", "locked")
    /\ IF TrigBitOk(op[p].trigBit)
       THEN /\ tmp' = [tmp EXCEPT ![p].a = a32.regTrigger[op[p].event]]
            /\ Log(p, "r", "regTrigger", op[p].event, a32.regTrigger[op[p].event])
            /\ Goto(p, "adjWrite")
       ELSE /\ Throw(p, "logic_error")
            /\ UNCHANGED <<tmp, acc>>
    /\ UNCHANGED <<a16, a32, op>>
    /\ UNCHANGED Ghosts
    /\ UNCHANGED Hist

\* a32.set_element<regTrigger>(lock, event, value)
adjustTclkReceptionWrite(p) ==
    /\ At(p, "adjustTclkReception", "adjWrite")
    /\ \E ok \in VerifyOutcomes :
        /\ SetTrigger(p, op[p].event,
                      AdjustValue(op[p].enable, tmp[p].a, op[p].trigBit), ok)
        /\ IF ok THEN Finish(p, Ok) ELSE Throw(p, "runtime_error")
        /\ enabled' = IF ~ok THEN enabled
                      ELSE IF op[p].enable
                           THEN enabled \cup {<<op[p].event, op[p].trigBit>>}
                           ELSE enabled \ {<<op[p].event, op[p].trigBit>>}
    /\ UNCHANGED <<op, tmp, pushed, returned>>
    /\ UNCHANGED Ghosts

(***************************************************************************)
(* HW::getTclkReception                                                    *)
(***************************************************************************)
getTclkReception(p) ==
    /\ At(p, "getTclkReception", "locked")
    /\ IF TrigBitOk(op[p].trigBit)
       THEN /\ Log(p, "r", "regTrigger", op[p].event, a32.regTrigger[op[p].event])
            /\ Finish(p, [Ok EXCEPT !.flag =
                   TclkReception(a32.regTrigger[op[p].event], op[p].trigBit)])
       ELSE /\ Throw(p, "logic_error")
            /\ UNCHANGED acc
    /\ UNCHANGED <<a16, a32, op, tmp>>
    /\ UNCHANGED Ghosts
    /\ UNCHANGED Hist

(***************************************************************************)
(* HW::setResetFifoTimestampTrigger, HW::setWriteFifoTrigger               *)
(***************************************************************************)
setResetFifoTimestampTrigger(p) ==
    /\ At(p, "setResetFifoTimestampTrigger", "locked")
    /\ IF SpecialTrigBitOk(op[p].trigBit)
       THEN \E ok \in VerifyOutcomes :
                /\ Set16(p, "regFifoClear", TrigSelect(op[p].trigBit), ok)
                /\ IF ok THEN Finish(p, Ok) ELSE Throw(p, "runtime_error")
       ELSE /\ Throw(p, "logic_error")
            /\ UNCHANGED <<a16, a32, acc>>
    /\ UNCHANGED <<op, tmp>>
    /\ UNCHANGED Ghosts
    /\ UNCHANGED Hist

setWriteFifoTrigger(p) ==
    /\ At(p, "setWriteFifoTrigger", "locked")
    /\ IF SpecialTrigBitOk(op[p].trigBit)
       THEN \E ok \in VerifyOutcomes :
                /\ Set16(p, "regFifoWrite", TrigSelect(op[p].trigBit), ok)
                /\ IF ok THEN Finish(p, Ok) ELSE Throw(p, "runtime_error")
       ELSE /\ Throw(p, "logic_error")
            /\ UNCHANGED <<a16, a32, acc>>
    /\ UNCHANGED <<op, tmp>>
    /\ UNCHANGED Ghosts
    /\ UNCHANGED Hist

(***************************************************************************)
(* HW::getStatus                                                           *)
(***************************************************************************)
\* uint16_t const temp = a16.get<regStatus>(lock)
getStatusRead(p) ==
    /\ At(p, "getStatus", "locked")
    /\ tmp' = [tmp EXCEPT ![p].a = GetA16("regStatus")]
    /\ Get16(p, "regStatus")
    /\ Goto(p, "statusWrite")
    /\ UNCHANGED op
    /\ UNCHANGED Ghosts
    /\ UNCHANGED Hist

\* a16.set<regStatus>(lock, temp); return Status(temp)
getStatusWrite(p) ==
    /\ At(p, "getStatus", "statusWrite")
    /\ \E ok \in VerifyOutcomes :
        /\ Set16(p, StatusReg, StatusWriteBack(tmp[p].a), ok)
        /\ IF ok
           THEN Finish(p, [Ok EXCEPT !.word = tmp[p].a])
           ELSE Throw(p, "runtime_error")
    /\ UNCHANGED <<op, tmp>>
    /\ UNCHANGED Ghosts
    /\ UNCHANGED Hist

(***************************************************************************)
(* HW::readFifo and Register<A32, FifoEntry, Offset, R, NoWrite>::read     *)
(***************************************************************************)
\* readFifo's access to the status register: a plain read
ReadFifoStatusWithWriteBack(p) ==
    /\ acc' = [acc EXCEPT ![p] = @ \o <<<<"r", "regStatus", 0, StatusValue>>,
                                        <<"w", "regStatus", 0, StatusValue>>>>]
    /\ a16' = StoreA16("regStatus", StatusValue)
    /\ UNCHANGED a32
ReadFifoStatus(p) == Get16(p, "regStatus")

\* if ((a16.get<regStatus>(lock) & FIFOEmpty) == 0) ... else return FifoEntry()
readFifoStatus(p) ==
    /\ At(p, "readFifo", "locked")
    /\ ReadFifoStatus(p)
    /\ IF FifoHasData(GetA16("regStatus"))
       THEN Goto(p, "fifoWord0")
       ELSE Finish(p, [Ok EXCEPT !.entry = NO_VALUE])
    /\ UNCHANGED <<op, tmp>>
    /\ UNCHANGED Ghosts
    /\ UNCHANGED Hist

\* uint32_t tmp = API::readMem(base, 0)
readFifoWord0(p) ==
    /\ At(p, "readFifo", "fifoWord0")
    /\ tmp' = [tmp EXCEPT ![p].a = FifoWord0]
    /\ Log(p, "r", "regFifo", 0, FifoWord0)
    /\ a16' = IF Len(a32.regFifo) = 0
              THEN [a16 EXCEPT !["regStatus"] = BitOr(@, FIFOUnderflow)]
              ELSE a16
    /\ Goto(p, "fifoWord1")
    /\ UNCHANGED <<a32, op>>
    /\ UNCHANGED Ghosts
    /\ UNCHANGED Hist

\* return FifoEntry((tmp << 16) | API::readMem(base, 1))
readFifoWord1(p) ==
    /\ At(p, "readFifo", "fifoWord1")
    /\ Log(p, "r", "regFifo", 1, FifoWord1)
    /\ a32' = [a32 EXCEPT !.regFifo = FifoAfterPop]
    /\ Finish(p, [Ok EXCEPT !.entry = FifoEntryOf(tmp[p].a, FifoWord1)])
    /\ returned' = Append(returned, FifoEntryOf(tmp[p].a, FifoWord1))
    /\ UNCHANGED <<a16, op, tmp, pushed, enabled>>
    /\ UNCHANGED Ghosts

Steps(p) ==
    \/ setFifoThreshold(p)
    \/ adjustTclkReceptionRead(p)
    \/ adjustTclkReceptionWrite(p)
    \/ getTclkReception(p)
    \/ setResetFifoTimestampTrigger(p)
    \/ setWriteFifoTrigger(p)
    \/ getStatusRead(p)
    \/ getStatusWrite(p)
    \/ readFifoStatus(p)
    \/ readFifoWord0(p)
    \/ readFifoWord1(p)
    \/ Return(p)

Operation(p) == Call(p) \/ Steps(p)

Next == Construct \/ HwPush \/ \E p \in Procs : Operation(p)

Spec == Init /\ [][Next]_vars

SpecFault == InitFault /\ [][Next]_vars

(***************************************************************************)
(* Waiting for the lock.  A task asks for the lock and waits until the     *)
(* holder has released it; the interrupt handler runs only while           *)
(* interrupts are not locked out and takes the lock at once.  Every caller *)
(* that can take a step eventually takes it, and a waiting task is         *)
(* eventually given the lock when it is free again and again.              *)
(***************************************************************************)
LiveOpsOf(p) ==
    {o \in OpsOf(p) : /\ o.level \in {0, 1}
                      /\ o.event = 0
                      /\ o.trigBit \in {0, 7}
                      /\ o.enable = (o.name = "adjustTclkReception")}

InitLive ==
    /\ \E idLow \in IdLowInputs : a16 = PowerUp(ModuleId \div 256, idLow)
    /\ a32 = [regTrigger |-> [e \in 0..(TriggerEntries - 1) |-> 0], regFifo |-> <<>>]
    /\ InitDriver
    /\ faulty = FALSE
    /\ fe = NoFifoEntry

Request(p) ==
    /\ constructed
    /\ pc[p] = "idle"
    /\ nOps < MaxLiveOps
    /\ \E o \in LiveOpsOf(p) : op' = [op EXCEPT ![p] = o]
    /\ pc' = [pc EXCEPT ![p] = "waiting"]
    /\ nOps' = nOps + 1
    /\ UNCHANGED <<a16, a32, mutex, constructed, tmp, ret, acc, snap, lastAdj, nPush,
                   faulty, fe>>
    /\ UNCHANGED Hist

Acquire(p) ==
    /\ pc[p] = "waiting"
    /\ \A q \in Procs : pc[q] \notin {"done", "built"}
    /\ CanTake(p)
    /\ mutex' = p
    /\ pc' = [pc EXCEPT ![p] = "locked"]
    /\ snap' = HwRegs
    /\ UNCHANGED <<a16, a32, constructed, op, tmp, ret, acc, lastAdj, nOps, nPush,
                   faulty, fe>>
    /\ UNCHANGED Hist

Interrupt(p) ==
    /\ constructed
    /\ pc[p] = "idle"
    /\ \A q \in Procs : pc[q] \notin {"done", "built"}
    /\ nOps < MaxLiveOps
    /\ ~IntMasked
    /\ \E o \in LiveOpsOf(p) : op' = [op EXCEPT ![p] = o]
    /\ IF CanTake(p)
       THEN /\ mutex' = p
            /\ pc' = [pc EXCEPT ![p] = "locked"]
            /\ snap' = HwRegs
       ELSE /\ pc' = [pc EXCEPT ![p] = "waiting"]
            /\ UNCHANGED <<mutex, snap>>
    /\ nOps' = nOps + 1
    /\ UNCHANGED <<a16, a32, constructed, tmp, ret, acc, lastAdj, nPush, faulty, fe>>
    /\ UNCHANGED Hist

NextLive ==
    \/ Construct
    \/ HwPush
    \/ Interrupt("isr")
    \/ \E p \in Tasks : Request(p) \/ Acquire(p)
    \/ \E p \in Procs : Steps(p)

Fairness ==
    /\ WF_vars(Construct)
    /\ \A p \in Procs : WF_vars(Steps(p))
    /\ \A p \in Tasks : SF_vars(Acquire(p))

SpecLive == InitLive /\ [][NextLive]_vars /\ Fairness

(***************************************************************************)
(* Draining the FIFO: the driver exists (the module is as the constructor  *)
(* left it, with or without a fill threshold set since), the hardware      *)
(* captures events and the tasks and the interrupt handler call readFifo   *)
(* and getStatus.                                                          *)
(***************************************************************************)
FifoThresholdInputs == {0, 1}

InitFifo ==
    /\ \E level \in FifoThresholdInputs :
           a16 = [PowerUp(ModuleId \div 256, ModuleId % 256) EXCEPT
                      !.regControl = EnableTCLK, !.regFifoThreshold = level]
    /\ a32 = [regTrigger |-> [e \in 0..(TriggerEntries - 1) |-> 0], regFifo |-> <<>>]
    /\ mutex = None
    /\ constructed = TRUE
    /\ pc = [p \in Procs |-> "idle"]
    /\ op = [p \in Procs |-> NoCall]
    /\ tmp = [p \in Procs |-> NoTmp]
    /\ ret = [p \in Procs |-> NoRet]
    /\ acc = [p \in Procs |-> <<>>]
    /\ snap = NoSnap
    /\ lastAdj = NoAdj
    /\ nOps = 0
    /\ nPush = 0
    /\ pushed = <<>>
    /\ returned = <<>>
    /\ enabled = {}
    /\ faulty = FALSE
    /\ fe = NoFifoEntry

HwPushFifo == Capture(MaxFifoPush, FifoInputs)

FifoOps == {o \in OpInputs : o.name \in {"getStatus", "readFifo"}}

CallFifo(p) == Enter(p, FifoOps, MaxReads)

FifoOperation(p) ==
    \/ CallFifo(p)
    \/ getStatusRead(p)
    \/ getStatusWrite(p)
    \/ readFifoStatus(p)
    \/ readFifoWord0(p)
    \/ readFifoWord1(p)
    \/ Return(p)

NextFifo == HwPushFifo \/ \E p \in Procs : FifoOperation(p)

SpecFifo == InitFifo /\ [][NextFifo]_vars

(***************************************************************************)
(* FifoEntry on its own: an entry is built from a 32-bit word or by the    *)
(* default constructor, then its accessors are called.                     *)
(***************************************************************************)
DriverVars == <<a16, a32, mutex, constructed, pc, op, tmp, ret, acc, snap, lastAdj,
                nOps, nPush, faulty, pushed, returned, enabled>>

InitFifoEntry ==
    /\ a16 = PowerUp(187, 21)
    /\ a32 = [regTrigger |-> [e \in 0..(TriggerEntries - 1) |-> 0], regFifo |-> <<>>]
    /\ InitDriver
    /\ faulty = FALSE
    /\ fe = NoFifoEntry

\* explicit FifoEntry(uint32_t v) : value(v)
FifoEntryFromWord ==
    /\ fe.made = "none"
    /\ \E hi \in WordInputs, lo \in WordInputs :
        fe' = [NoFifoEntry EXCEPT !.value = [hi |-> hi, lo |-> lo], !.made = "word"]
    /\ UNCHANGED DriverVars

\* FifoEntry(): v = NO_VALUE
FifoEntryDefault ==
    /\ fe.made = "none"
    /\ fe' = [NoFifoEntry EXCEPT !.value = NO_VALUE, !.made = "default"]
    /\ UNCHANGED DriverVars

FifoEntryEvent ==
    /\ fe.made # "none"
    /\ fe.event = -1
    /\ fe' = [fe EXCEPT !.event = event(fe.value)]
    /\ UNCHANGED DriverVars

FifoEntryStamp ==
    /\ fe.made # "none"
    /\ fe.stamp = -1
    /\ fe' = [fe EXCEPT !.stamp = stamp(fe.value)]
    /\ UNCHANGED DriverVars

FifoEntryIsValid ==
    /\ fe.made # "none"
    /\ fe.valid = "unknown"
    /\ fe' = [fe EXCEPT !.valid = IF isValid(fe.value) THEN "yes" ELSE "no"]
    /\ UNCHANGED DriverVars

NextFifoEntry ==
    \/ FifoEntryFromWord
    \/ FifoEntryDefault
    \/ FifoEntryEvent
    \/ FifoEntryStamp
    \/ FifoEntryIsValid

SpecFifoEntry == InitFifoEntry /\ [][NextFifoEntry]_vars

(***************************************************************************)
(* Vocabulary of the properties.                                           *)
(***************************************************************************)
IsWrite(e) == e[1] = "w"
Writes(p) == SelectSeq(acc[p], IsWrite)
IsPrefix(s, t) == Len(s) <= Len(t) /\ \A i \in 1..Len(s) : s[i] = t[i]

\* p is between taking the lock and the end of its operation
InFlight(p) == pc[p] \notin {"start", "idle", "done", "built", "failed"}

\* p's call of the operation has returned or thrown
Done(p, name) == pc[p] = "done" /\ op[p].name = name

PromMatches == a16["regIdHigh"] = 187 /\ a16["regIdLow"] = 21

\* the registers now against the registers at the start of the operation: the
\* driver has changed nothing but the registers in `changed` (the hardware
\* itself may latch status bits at any time, it never clears one)
SameExcept(changed) ==
    /\ \A r \in (A16Regs \ changed) \ {"regStatus"} : a16[r] = snap.a16[r]
    /\ "regStatus" \notin changed =>
           BitAndNot(snap.a16["regStatus"], a16["regStatus"]) = 0
    /\ "regTrigger" \notin changed => a32.regTrigger = snap.trig

Untouched == SameExcept({})

CtorWrites ==
    <<<<"w", "regControl", 0, 255>>, <<"w", "regFifoWrite", 0, 0>>,
      <<"w", "regFifoClear", 0, 0>>>>
    \o [i \in 1..256 |-> <<"w", "regTrigger", i - 1, 0>>]
    \o <<<<"w", "regControl", 0, 1>>>>

(***************************************************************************)
(* C1: constructing against a module whose PROM reads 0xBB, 0x15 writes,   *)
(* in this order and nothing else: SW_Reset to the control register, zero  *)
(* to the FIFO-write-trigger and FIFO-clear-trigger registers, zero to     *)
(* each of the 256 trigger-map entries 0..255, EnableTCLK to the control   *)
(* register; and nothing is written before the identity has been checked.  *)
(***************************************************************************)
C1_ConstructionOrder ==
    PromMatches =>
        /\ (~constructed \/ pc[Creator] = "built") =>
               IsPrefix(Writes(Creator), CtorWrites)
        /\ pc[Creator] \in {"start", "id"} => Writes(Creator) = <<>>
        /\ pc[Creator] = "built" =>
              /\ Writes(Creator) = CtorWrites
              /\ Len(acc[Creator]) = Len(CtorWrites) + 2
              /\ {acc[Creator][1], acc[Creator][2]} =
                     {<<"r", "regIdHigh", 0, 187>>, <<"r", "regIdLow", 0, 21>>}
        /\ pc[Creator] # "failed"

C1_Witness == PromMatches /\ pc[Creator] = "built" /\ Len(Writes(Creator)) = 260

(***************************************************************************)
(* C2: constructing against a module whose identity is not 0xBB15 fails    *)
(* with the device-not-found error (a runtime_error) before any register   *)
(* is written: the module is never software-reset and its control, trigger *)
(* and trigger-map registers are as they were.                             *)
(***************************************************************************)
C2_MismatchNeverWritten ==
    ~PromMatches =>
        /\ pc[Creator] \in {"start", "id", "failed"}
        /\ Writes(Creator) = <<>>
        /\ ~constructed
        /\ a16["regControl"] # SW_Reset
        /\ pc[Creator] # "start" => Untouched
        /\ pc[Creator] = "failed" => ret[Creator].kind = "runtime_error"

C2_Witness ==
    /\ ~PromMatches
    /\ a16["regIdHigh"] = 187
    /\ pc[Creator] = "failed"
    /\ ret[Creator].kind = "runtime_error"

(***************************************************************************)
(* C3: when the constructor throws, for whatever reason (a confirm-write   *)
(* that fails included), the hardware registers are as they were before    *)
(* the construction started.                                               *)
(***************************************************************************)
C3_ThrowLeavesHardwareUntouched ==
    pc[Creator] = "failed" => Untouched

(***************************************************************************)
(* C4 as claimed: readFifo that reads a status with the FIFO-empty bit     *)
(* (0x0100) set returns an invalid FifoEntry and does not read the FIFO    *)
(* register; with the bit clear it reads the FIFO register once, word 0    *)
(* then word 1, and returns a valid FifoEntry whose value is               *)
(* (word 0 << 16) | word 1, whatever the two words are.                    *)
(***************************************************************************)
ReadFifoShape(p) ==
    /\ ret[p].kind = "ok"
    /\ Len(acc[p]) >= 1
    /\ acc[p][1][1] = "r" /\ acc[p][1][2] = "regStatus"
    /\ IF Bit(acc[p][1][4], 8) = 1
       THEN /\ Len(acc[p]) = 1
            /\ ~isValid(ret[p].entry)
       ELSE /\ Len(acc[p]) = 3
            /\ acc[p][2][1] = "r" /\ acc[p][2][2] = "regFifo" /\ acc[p][2][3] = 0
            /\ acc[p][3][1] = "r" /\ acc[p][3][2] = "regFifo" /\ acc[p][3][3] = 1
            /\ ret[p].entry = [hi |-> acc[p][2][4], lo |-> acc[p][3][4]]

C4_ReadFifoAlwaysValid ==
    \A p \in Procs : Done(p, "readFifo") =>
        /\ ReadFifoShape(p)
        /\ Len(acc[p]) = 3 => isValid(ret[p].entry)

(***************************************************************************)
(* C4 as amended: as above, but the FifoEntry read from a non-empty FIFO   *)
(* is valid exactly when the two words are not both 0xFFFF; the pair       *)
(* (0xFFFF, 0xFFFF) is popped and returned as an invalid FifoEntry.        *)
(***************************************************************************)
C4_ReadFifo ==
    \A p \in Procs : Done(p, "readFifo") =>
        /\ ReadFifoShape(p)
        /\ Len(acc[p]) = 3 =>
              (isValid(ret[p].entry) <=>
                   ~(acc[p][2][4] = 65535 /\ acc[p][3][4] = 65535))

C4_Witness ==
    \E p \in Procs :
        /\ Done(p, "readFifo")
        /\ Len(acc[p]) = 3
        /\ ret[p].entry = [hi |-> 1, lo |-> 515]
        /\ isValid(ret[p].entry)

(***************************************************************************)
(* C5: at most one caller, task or interrupt handler, is inside a          *)
(* register-access sequence (construction included) at any time, and it is *)
(* the one that holds the lock: no access of one operation falls between   *)
(* two accesses of another.                                                *)
(***************************************************************************)
C5_OneSequenceInFlight ==
    /\ Cardinality({p \in Procs : InFlight(p)}) <= 1
    /\ \A p \in Procs : InFlight(p) => mutex = p
    /\ \A p \in Procs : ~InFlight(p) => mutex # p

C5_Witness ==
    /\ pc["isr"] = "fifoWord1"
    /\ mutex = "isr"
    /\ \A p \in Tasks : pc[p] = "idle"

(***************************************************************************)
(* C6: adjustTclkReception with a trigBit outside 0..7, and                *)
(* setResetFifoTimestampTrigger and setWriteFifoTrigger with a trigBit     *)
(* outside 1..7 (0 included), end with a logic_error and without any       *)
(* register write: every register is as it was before the call.            *)
(***************************************************************************)
Rejected(p) ==
    \/ op[p].name = "adjustTclkReception" /\ op[p].trigBit \notin 0..7
    \/ /\ op[p].name \in {"setResetFifoTimestampTrigger", "setWriteFifoTrigger"}
       /\ op[p].trigBit \notin 1..7

C7_SetFifoThreshold ==
    \A p \in Procs : Done(p, "setFifoThreshold") =>
        IF op[p].level = 0
        THEN /\ ret[p].kind = "logic_error"
             /\ acc[p] = <<>>
             /\ Untouched
        ELSE /\ ret[p].kind = "ok"
             /\ acc[p] = <<<<"w", "regFifoThreshold", 0, op[p].level>>>>
             /\ a16["regFifoThreshold"] = op[p].level
             /\ SameExcept({"regFifoThreshold"})

C7_Witness ==
    \E p \in Procs :
        /\ Done(p, "setFifoThreshold")
        /\ op[p].level = 1
        /\ ret[p].kind = "ok"
        /\ a16["regFifoThreshold"] = 1

(***************************************************************************)
(* C8 and C9 speak of an adjustTclkReception(enable, E, B) that succeeded  *)
(* and of the operation called right before it.                            *)
(***************************************************************************)
AdjustDone(p, enable) ==
    /\ Done(p, "adjustTclkReception")
    /\ op[p].enable = enable
    /\ ret[p].kind = "ok"

\* the operation before p's was adjustTclkReception(TRUE, E, B), same E and B
AfterEnableOfSame(p) ==
    /\ lastAdj.name = "adjustTclkReception"
    /\ lastAdj.enable
    /\ lastAdj.event = op[p].event
    /\ lastAdj.trigBit = op[p].trigBit

EnableTwiceSameAsOnce ==
    \A p \in Procs : AdjustDone(p, TRUE) /\ AfterEnableOfSame(p) =>
        a32.regTrigger = lastAdj.after

(***************************************************************************)
(* C8 as claimed: adjustTclkReception(true, E, B) twice in a row leaves    *)
(* the trigger map as one call does; adjustTclkReception(false, E, B)      *)
(* after adjustTclkReception(true, E, B) restores the value that bit B of  *)
(* entry E had before the two calls, whatever the map was.                 *)
(***************************************************************************)
C8_DisableRestoresOriginalBit ==
    /\ EnableTwiceSameAsOnce
    /\ \A p \in Procs : AdjustDone(p, FALSE) /\ AfterEnableOfSame(p) =>
           Bit(a32.regTrigger[op[p].event], op[p].trigBit)
               = Bit(lastAdj.before, op[p].trigBit)

(***************************************************************************)
(* C8 as amended: adjustTclkReception(true, E, B) twice in a row leaves    *)
(* the trigger map as one call does; adjustTclkReception(false, E, B)      *)
(* after adjustTclkReception(true, E, B) leaves bit B of entry E clear and *)
(* every other bit of entry E as it was before the two calls, which is the *)
(* original entry exactly when bit B was clear in it.                      *)
(***************************************************************************)
C8_AdjustIdempotent ==
    /\ EnableTwiceSameAsOnce
    /\ \A p \in Procs : AdjustDone(p, FALSE) /\ AfterEnableOfSame(p) =>
           /\ Bit(a32.regTrigger[op[p].event], op[p].trigBit) = 0
           /\ \A n \in 0..15 : n # op[p].trigBit =>
                  Bit(a32.regTrigger[op[p].event], n) = Bit(lastAdj.before, n)
           /\ (a32.regTrigger[op[p].event] = lastAdj.before)
                  <=> (Bit(lastAdj.before, op[p].trigBit) = 0)

C8_Witness ==
    \E p \in Procs :
        /\ AdjustDone(p, FALSE)
        /\ AfterEnableOfSame(p)
        /\ op[p].event = 255
        /\ op[p].trigBit = 7
        /\ Bit(lastAdj.before, 7) = 0
        /\ lastAdj.after[255] = 128
        /\ a32.regTrigger[255] = 0

(***************************************************************************)
(* C9: after adjustTclkReception(true, E, B) with B in 0..7,               *)
(* getTclkReception(E, B) returns true, and getTclkReception(E', B') for   *)
(* every other pair, B' in 0..7, returns what it returned before the call. *)
(***************************************************************************)
C9_EnableSetsOnlyThatBit ==
    /\ \A p \in Procs : AdjustDone(p, TRUE) =>
           /\ TclkReception(a32.regTrigger[op[p].event], op[p].trigBit)
           /\ \A b \in 0..7 : b # op[p].trigBit =>
                  TclkReception(a32.regTrigger[op[p].event], b)
                      = TclkReception(snap.trig[op[p].event], b)
           /\ \A e \in 0..255 : e # op[p].event =>
                  a32.regTrigger[e] = snap.trig[e]
    /\ \A p \in Procs :
           /\ Done(p, "getTclkReception")
           /\ ret[p].kind = "ok"
           /\ lastAdj.name = "adjustTclkReception"
           /\ lastAdj.enable
           /\ lastAdj.event = op[p].event
           => ret[p].flag = (IF lastAdj.trigBit = op[p].trigBit THEN TRUE
                             ELSE Bit(lastAdj.before, op[p].trigBit) = 1)

C9_Witness ==
    \E p \in Procs :
        /\ Done(p, "getTclkReception")
        /\ AfterEnableOfSame(p)
        /\ ret[p].kind = "ok"
        /\ ret[p].flag

(***************************************************************************)
(* C10: getStatus reads the status register, then writes the value it read *)
(* back to the status register, then returns that value; it holds the lock *)
(* from the read to the write-back, so no other caller is inside an        *)
(* operation between the two.                                              *)
(***************************************************************************)
C10_GetStatusReadThenWriteBack ==
    \A p \in Procs :
        /\ (op[p].name = "getStatus" /\ pc[p] = "statusWrite") =>
              /\ mutex = p
              /\ \A q \in Procs \ {p} : ~InFlight(q)
              /\ acc[p] = <<<<"r", "regStatus", 0, tmp[p].a>>>>
        /\ (Done(p, "getStatus") /\ ret[p].kind = "ok") =>
              /\ Len(acc[p]) = 2
              /\ acc[p][1][1] = "r" /\ acc[p][1][2] = "regStatus"
              /\ acc[p][2] = <<"w", "regStatus", 0, acc[p][1][4]>>
              /\ ret[p].word = acc[p][1][4]

C10_Witness ==
    \E p \in Procs :
        /\ Done(p, "getStatus")
        /\ ret[p].kind = "ok"
        /\ Bit(ret[p].word, 9) = 1
        /\ Bit(a16["regStatus"], 9) = 0

(***************************************************************************)
(* C11: a FifoEntry built from the 32-bit word w is valid exactly when w   *)
(* is not 0xFFFFFFFF, its event() is w mod 256 and its stamp() is          *)
(* w div 256, a 24-bit value (w = 256 * stamp + event with event below     *)
(* 256); a default-constructed FifoEntry is not valid.  The word is held   *)
(* as its halves, w = 65536 * hi + lo.                                     *)
(***************************************************************************)
C11_FifoEntryDecoding ==
    fe.made # "none" =>
        /\ fe.valid # "unknown" =>
              ((fe.valid = "yes") <=> ~(fe.value.hi = 65535 /\ fe.value.lo = 65535))
        /\ fe.made = "default" => fe.valid # "yes"
        /\ fe.event # -1 => fe.event \in 0..255
        /\ fe.stamp # -1 =>
              /\ fe.stamp \in 0..16777215
              /\ fe.stamp \div 256 = fe.value.hi
        /\ (fe.event # -1 /\ fe.stamp # -1) =>
              (fe.stamp % 256) * 256 + fe.event = fe.value.lo

C11_Witness ==
    /\ fe.made = "word"
    /\ fe.value = [hi |-> 65535, lo |-> 65534]
    /\ fe.valid = "yes"
    /\ fe.event = 254
    /\ fe.stamp = 16777215

(***************************************************************************)
(* C12: for trigBit in 1..7, setResetFifoTimestampTrigger(trigBit) writes  *)
(* trigBit + 1 to the FIFO-clear-trigger register and leaves the           *)
(* FIFO-write-trigger register alone, setWriteFifoTrigger(trigBit) writes  *)
(* trigBit + 1 to the FIFO-write-trigger register and leaves the           *)
(* FIFO-clear-trigger register alone; neither ever writes 0 or 1.          *)
(***************************************************************************)
SpecialTarget(name) ==
    IF name = "setResetFifoTimestampTrigger" THEN "regFifoClear" ELSE "regFifoWrite"

C12_SpecialTriggerEncoding ==
    \A p \in Procs :
        op[p].name \in {"setResetFifoTimestampTrigger", "setWriteFifoTrigger"} =>
            /\ \A i \in 1..Len(acc[p]) :
                   /\ acc[p][i][1] = "w"
                   /\ acc[p][i][2] = SpecialTarget(op[p].name)
                   /\ acc[p][i][4] \in 2..8
            /\ (pc[p] = "done" /\ op[p].trigBit \in 1..7) =>
                   /\ ret[p].kind = "ok"
                   /\ acc[p] = <<<<"w", SpecialTarget(op[p].name), 0, op[p].trigBit + 1>>>>
                   /\ a16[SpecialTarget(op[p].name)] = op[p].trigBit + 1
                   /\ SameExcept({SpecialTarget(op[p].name)})

C12_Witness ==
    \E p \in Procs :
        /\ Done(p, "setResetFifoTimestampTrigger")
        /\ op[p].trigBit = 7
        /\ a16["regFifoClear"] = 8
        /\ a16["regFifoWrite"] = 0

(***************************************************************************)
(* C13: a successful construction writes SW_Reset to the control register  *)
(* exactly once, and once the driver exists no operation writes SW_Reset   *)
(* or any other command to the control register: the register keeps        *)
(* EnableTCLK, the device stays operational.                               *)
(***************************************************************************)
IsControlWrite(e) == e[1] = "w" /\ e[2] = "regControl"
IsResetWrite(e) == IsControlWrite(e) /\ e[4] = SW_Reset

C13_ResetOncePerConstruction ==
    /\ pc[Creator] = "built" =>
           /\ Len(SelectSeq(acc[Creator], IsResetWrite)) = 1
           /\ Len(SelectSeq(acc[Creator], IsControlWrite)) = 2
    /\ constructed =>
           /\ a16["regControl"] = EnableTCLK
           /\ \A p \in Procs :
                  pc[p] # "built" => SelectSeq(acc[p], IsControlWrite) = <<>>

C13_Witness ==
    /\ constructed
    /\ nOps = MaxOps
    /\ \E p \in Procs : Done(p, "getStatus") /\ Len(Writes(p)) = 1
    /\ a16["regControl"] = EnableTCLK

(***************************************************************************)
(* C14: a push by the hardware between readFifo's status check and its pop, *)
(* or just after a status check that saw the FIFO empty, corrupts nothing: *)
(* the entry readFifo builds from its two word reads is one whole entry    *)
(* the hardware pushed (the oldest one not yet popped), and a readFifo     *)
(* whose status check finds an entry in the FIFO, such as the call after a *)
(* stale empty observation, goes on to pop and return that entry.          *)
(***************************************************************************)
ReadsWholeEntry ==
    \A p \in Procs :
        (Done(p, "readFifo") /\ Len(acc[p]) = 3) =>
            /\ Len(returned) \in 1..Len(pushed)
            /\ ret[p].entry = pushed[Len(returned)]
            /\ returned[Len(returned)] = ret[p].entry

ReadFifoStep ==
    \A p \in Procs :
        /\ (At(p, "readFifo", "locked") /\ pc'[p] # "locked"
                /\ Len(a32.regFifo) > 0) =>
               pc'[p] = "fifoWord0"
        /\ (At(p, "readFifo", "fifoWord1") /\ pc'[p] = "done") =>
               /\ Len(a32.regFifo) > 0
               /\ ret'[p].entry = Head(a32.regFifo)
               /\ a32'.regFifo = Tail(a32.regFifo)

C14_PushDuringReadFifo == []ReadsWholeEntry /\ [][ReadFifoStep]_vars

\* a readFifo that saw the FIFO empty has returned while an entry, pushed
\* just after its status check, waits in the FIFO behind one already read
C14_Witness ==
    \E p \in Procs :
        /\ Done(p, "readFifo")
        /\ Len(acc[p]) = 1
        /\ Len(a32.regFifo) = 1
        /\ Len(returned) = 1
        /\ returned[1] = [hi |-> 1, lo |-> 515]

(***************************************************************************)
(* C15: over every interleaving of pushes and readFifo calls, the valid    *)
(* entries readFifo has returned are exactly a prefix of the entries the   *)
(* hardware pushed, in push order, none lost, duplicated or reordered:     *)
(* every entry that has left the FIFO is among them.                       *)
(***************************************************************************)
C15_ValidEntriesArePushedPrefix ==
    /\ IsPrefix(SelectSeq(returned, isValid), pushed)
    /\ Len(SelectSeq(returned, isValid)) + Len(a32.regFifo) = Len(pushed)

(***************************************************************************)
(* C15 as amended: the entries readFifo has popped and returned are        *)
(* exactly a prefix of the entries pushed, in push order, and the FIFO     *)
(* holds the rest; a returned entry is valid unless the pushed word is     *)
(* 0xFFFFFFFF, which is popped and returned as an invalid entry.           *)
(***************************************************************************)
C15_PoppedEntriesArePushedPrefix ==
    /\ returned \o a32.regFifo = pushed
    /\ \A i \in 1..Len(returned) :
           isValid(returned[i]) <=> pushed[i] # [hi |-> 65535, lo |-> 65535]

C15_Witness ==
    /\ Len(returned) = 2
    /\ returned = pushed
    /\ returned[1] = [hi |-> 65535, lo |-> 65535]
    /\ returned[2] = [hi |-> 1, lo |-> 515]
    /\ \E p \in Procs : Done(p, "readFifo")

(***************************************************************************)
(* C16: no operation blocks indefinitely: construction ends (built or      *)
(* failed), a lock that is held is eventually released, also when the      *)
(* operation or the construction ends with an exception, and every task    *)
(* waiting for the lock eventually acquires it and completes its operation.*)
(***************************************************************************)
C16_NoOperationBlocksForever ==
    /\ (pc[Creator] = "start") ~> (pc[Creator] \in {"built", "failed"})
    /\ (mutex # None) ~> (mutex = None)
    /\ \A p \in Tasks : (pc[p] = "waiting") ~> (pc[p] = "done")

\* a task waits for the lock while the other one is inside an operation
C16_Witness ==
    /\ pc["task2"] = "waiting"
    /\ mutex = "task1"
    /\ pc["task1"] = "adjWrite"

(***************************************************************************)
(* C17: the interrupt handler never tries to take the lock while a task    *)
(* holds it: the holder of the interrupt-safe lock keeps the handler from  *)
(* running until release, so the handler is never left waiting for a lock  *)
(* held by the task it interrupted.                                        *)
(***************************************************************************)
C17_IsrNeverWaitsForTask ==
    /\ pc["isr"] # "waiting"
    /\ mutex \in Tasks => pc["isr"] \in {"idle", "done"}
    /\ InFlight("isr") => mutex = "isr"

\* a task is inside getStatus with the lock held while the handler, which
\* could otherwise start an operation, has not run
C17_Witness ==
    /\ mutex = "task1"
    /\ pc["task1"] = "statusWrite"
    /\ pc["isr"] = "idle"
    /\ nOps < MaxLiveOps

(***************************************************************************)
(* C18: the driver never causes a FIFO underflow: whatever the hardware    *)
(* pushes and whichever callers call readFifo, each holding the lock for   *)
(* the whole call, both word reads of the FIFO register are issued while   *)
(* the FIFO holds at least one entry, and the hardware never latches the   *)
(* FIFO-underflow status bit.                                              *)
(***************************************************************************)
C18_NoFifoUnderflow ==
    /\ \A p \in Procs :
           pc[p] \in {"fifoWord0", "fifoWord1"} => Len(a32.regFifo) >= 1
    /\ BitAnd(a16["regStatus"], FIFOUnderflow) = 0
    /\ Len(returned) <= Len(pushed)

\* the single entry pushed has been popped by one readFifo and a later
\* readFifo, by the interrupt handler, found the FIFO empty and read nothing
C18_Witness ==
    /\ Len(pushed) = 1
    /\ Len(returned) = 1
    /\ Done("isr", "readFifo")
    /\ Len(acc["isr"]) = 1

(***************************************************************************)
(* C19: after a successful construction and any sequence of operations,    *)
(* every one of the 256 trigger-map entries is in 0..255 (bits 8..15 are   *)
(* zero) and bit B of entry E is set exactly when the last successful      *)
(* adjustTclkReception for (E, B) since construction had enable = true.    *)
(* Looked at whenever the constructor or an operation has just ended.      *)
(***************************************************************************)
EntryFor(e) == BitSum([b \in 0..7 |-> IF <<e, b>> \in enabled THEN 1 ELSE 0], 7)

TriggerMapMatches ==
    /\ \A pair \in enabled : pair[1] \in EventInputs /\ pair[2] \in 0..7
    /\ \A e \in 0..(TriggerEntries - 1) :
           IF e \in EventInputs
           THEN a32.regTrigger[e] = EntryFor(e)
           ELSE a32.regTrigger[e] = 0

C19_TriggerMapFollowsAdjust ==
    (\E p \in Procs : pc[p] \in {"done", "built"}) => TriggerMapMatches

C19_Witness ==
    /\ Done(Creator, "adjustTclkReception")
    /\ ret[Creator].kind = "ok"
    /\ ~op[Creator].enable
    /\ enabled = {<<0, 0>>}
    /\ a32.regTrigger[0] = 1
    /\ nOps = MaxOps

(***************************************************************************)
(* C20: readFifo and getTclkReception issue no register write: control,    *)
(* FIFO threshold, FIFO-write trigger, FIFO-clear trigger and the trigger  *)
(* map keep their values, and the status bits latched when the call began  *)
(* are still latched when it ends: readFifo's status read is not followed  *)
(* by a write-back.                                                        *)
(***************************************************************************)
C20_ReadOnlyOperations ==
    \A p \in Procs :
        op[p].name \in {"readFifo", "getTclkReception"} =>
            /\ Writes(p) = <<>>
            /\ Untouched

\* readFifo has popped an entry and the threshold bit latched before the
\* call is still latched
C20_Witness ==
    \E p \in Procs :
        /\ Done(p, "readFifo")
        /\ Len(acc[p]) = 3
        /\ BitAnd(snap.a16["regStatus"], FIFOThreshold) # 0
        /\ BitAnd(a16["regStatus"], FIFOThreshold) # 0

====
